---- MODULE Spec2Model ----
(***************************************************************************)
(* State-machine model of the behavioural state layer of Shandris: the     *)
(* mood engine, the persona system, the score normalisation layer, the     *)
(* topic threader and the session flow coordinator.                        *)
(*                                                                         *)
(* float64 quantities are kept in fixed point: the integer 10000 stands    *)
(* for 1.0.  time.Time values are minutes on one clock, `now`.             *)
(***************************************************************************)
EXTENDS Integers, Sequences, FiniteSets, TLC

VARIABLES
    now,            \* the wall clock, in minutes
    result,         \* the last step: the operation, its argument, whether it returned an error
    CurrentState,   \* MoodEngineImpl.CurrentState
    History,        \* MoodEngineImpl.History
    updateCalls,    \* number of UpdateMood calls performed so far
    personas,       \* PersonaSystem.personas: ID -> [Active, LastUsed]
    activePersona,  \* PersonaSystem.activePersona: an ID, or NoPersona for nil
    history,        \* PersonaSystem.history
    psContext,      \* PersonaSystem.context, the PersonaContext every event points at
    switchCalls,    \* the SwitchPersona calls in flight: their position and their locals
    cooldowns,      \* TransitionManager.cooldowns
    transitions,    \* TransitionManager.transitions, keyed by <<from, to>>
    normIn,         \* the arguments of the last NormalizeScores call
    normOut,        \* what the last NormalizeScores call returned
    ActiveThreads,  \* TopicManager.ActiveThreads: thread ID -> thread
    TopicGraph,     \* TopicManager.TopicGraph: topic -> [Related]
    threadsCreated, \* number of threads created so far; the source of thread IDs
    relationshipGraph,  \* TopicPersistenceEnhanced.relationshipGraph
    topicOps,       \* number of updateThread and UpdateRelationshipGraph calls so far
    archivedThreads,    \* the threads archiveThread has put away
    inputsProcessed,    \* number of ProcessInput calls so far
    cache,              \* TopicPersistence.cache: topic ID -> CachedTopic
    topicRows,          \* the rows of the topics table: topic ID -> row
    persistCalls,       \* number of SaveTopic and LoadTopic calls so far
    activeSession,  \* SessionFlowManager.activeSession: a session, or NoSession for nil
    sessionHistory, \* SessionFlowManager.sessionHistory: [sessions, userHistory]
    sessionsStarted,    \* number of sessions created so far; the source of session IDs
    returnedSessions,   \* the *Session objects StartSession returned to its callers, by ID
    events,         \* TimelineMemory.events: event ID -> event; the IDs are 1, 2, ...
    markers,        \* TimelineMemory.markers, in the order of their creation
    relationships,  \* TimelineMemory.relationships: user ID -> relationship
    relationshipUpdates,    \* number of UpdateRelationship calls so far
    recalled,       \* what the last RecallMemories call returned: event IDs in order
    storeCalls,     \* number of StoreEvent calls so far
    sessionContext, \* table session_context: session_id -> current_topic
    chatLog,        \* the chat turns served so far, with what each replied
    tcData,         \* TimedCache.data: key -> value
    tcExpiry        \* TimedCache.expiry: key -> time

moodVars == <<CurrentState, History, updateCalls>>
personaVars ==
    <<personas, activePersona, history, cooldowns, transitions, psContext, switchCalls>>
normVars == <<normIn, normOut>>
topicVars ==
    <<ActiveThreads, TopicGraph, threadsCreated, relationshipGraph, topicOps,
      archivedThreads, inputsProcessed, cache, topicRows, persistCalls>>
sessionVars == <<activeSession, sessionHistory, sessionsStarted, returnedSessions>>
timelineVars == <<events, markers, relationships, relationshipUpdates, recalled, storeCalls>>
chatVars == <<sessionContext, chatLog>>
cacheVars == <<tcData, tcExpiry>>
vars ==
    <<now, result, moodVars, personaVars, normVars, topicVars, sessionVars, timelineVars,
      chatVars, cacheVars>>

----------------------------------------------------------------------------
(* Bounds of the exploration *)

MaxMoodUpdates == 2
MaxMoodTime == 900
MaxSwitches == 3
MaxPersonaTime == 12
MaxTopicOps == 5
MaxSessions == 2
MaxSessionTime == 10
MaxEvents == 2
MaxRelationshipUpdates == 2
MaxTimelineTime == 20160
MaxInputs == 3
MaxCheckpoints == 2
MaxPersistCalls == 4
MaxPersistTime == 2880
MaxChatTurns == 3
MaxCacheTime == 180
MaxInputTime == 62

----------------------------------------------------------------------------
(* Fixed-point helpers *)

Scale == 100 * 100

Abs(x) == IF x < 0 THEN -x ELSE x
Min(a, b) == IF a < b THEN a ELSE b
Max(a, b) == IF a > b THEN a ELSE b

\* exp(-k/10) for k = 0..80, in fixed point
ExpTable ==
    << 10000, 9048, 8187, 7408, 6703, 6065, 5488, 4966, 4493, 4066,
       3679, 3329, 3012, 2725, 2466, 2231, 2019, 1827, 1653, 1496,
       1353, 1225, 1108, 1003, 907, 821, 743, 672, 608, 550,
       498, 450, 408, 369, 334, 302, 273, 247, 224, 202,
       183, 166, 150, 136, 123, 111, 101, 91, 82, 74,
       67, 61, 55, 50, 45, 41, 37, 33, 30, 27,
       25, 22, 20, 18, 17, 15, 14, 12, 11, 10,
       9, 8, 7, 7, 6, 6, 5, 5, 4, 4, 3 >>

\* math.Exp(-x) for x >= 0 given in thousandths: the table, interpolated
\* linearly between its points; below the last point the value is taken as 0
ExpNeg(xm) ==
    LET k == xm \div 100
        r == xm % 100
    IN  IF k >= 80 THEN 0
        ELSE ExpTable[k + 1] - (((ExpTable[k + 1] - ExpTable[k + 2]) * r) \div 100)

----------------------------------------------------------------------------
(* Mood engine: mood.go *)

\* NewMoodEngine: Modifiers and Thresholds
decay_rate == 1000
change_thresh == 3000
max_intensity == 10000
mood_shift == 4000

\* the catalog of determinePrimaryMood
moodPatterns ==
    [ playful |-> [Keywords |-> {"haha", "lol", "fun", "play", "joke", "tease"},
                   Sentiment |-> 7000, Intensity |-> 6000],
      sassy |-> [Keywords |-> {"actually", "well_actually", "oh_really", "sure_jan", "whatever"},
                 Sentiment |-> 3000, Intensity |-> 8000],
      flirty |-> [Keywords |-> {"cute", "pretty", "beautiful", "hot", "gorgeous", "flirt"},
                  Sentiment |-> 8000, Intensity |-> 7000],
      intellectual |-> [Keywords |-> {"think", "theory", "quantum", "algorithm", "complex", "interesting"},
                        Sentiment |-> 4000, Intensity |-> 6000],
      protective |-> [Keywords |-> {"help", "protect", "safe", "careful", "worry", "concern"},
                      Sentiment |-> 2000, Intensity |-> 5000] ]

Moods == DOMAIN moodPatterns

\* strings.Contains(word, target) on the words the inputs are made of:
\* a word contains itself and the substrings listed here
Substrings ==
    { <<"playful", "play">>, <<"flirty", "flirt">>, <<"well_actually", "actually">>,
      <<"unhappy", "happy">>, <<"photo", "hot">> }

StrContains(word, target) == word = target \/ <<word, target>> \in Substrings

\* containsKeyword(keywords, target)
containsKeyword(keywords, target) == \E k \in keywords : StrContains(k, target)

\* a context is a map from keys to values; the keys whose values are float64
FloatKeys == {"sentiment", "intensity", "impact"}

HasKey(context, key) == key \in DOMAIN context

\* strings.Fields(strings.ToLower(text)) as the set of its words
TextOf(context) == IF HasKey(context, "text") THEN context["text"] ELSE {}

\* extractKeywords
extractKeywords(context) == TextOf(context)

\* strings.Contains(strings.ToLower(text), s) on the whole text
TextContains(context, s) == \E w \in TextOf(context) : StrContains(w, s)

\* calculateSentiment
calculateSentiment(context) ==
    LET base == IF HasKey(context, "sentiment") THEN context["sentiment"] ELSE 0
        up == IF TextContains(context, "love") \/ TextContains(context, "happy") THEN 3000 ELSE 0
        down == IF TextContains(context, "hate") \/ TextContains(context, "sad") THEN 3000 ELSE 0
    IN  Max(-Scale, Min(Scale, base + up - down))

\* calculateIntensity
calculateIntensity(context) ==
    LET base == IF HasKey(context, "intensity") THEN context["intensity"] ELSE 5000
        up == IF TextContains(context, "very") \/ TextContains(context, "really") THEN 2000 ELSE 0
    IN  Min(Scale, base + up)

\* extractUserMood
extractUserMood(context) ==
    IF HasKey(context, "user_mood") THEN context["user_mood"]
    ELSE IF TextContains(context, "happy") \/ TextContains(context, "excited") THEN "happy"
    ELSE IF TextContains(context, "sad") \/ TextContains(context, "angry") THEN "negative"
    ELSE "neutral"

\* getCurrentSapphicContext: the zero SapphicContext
getCurrentSapphicContext ==
    [IsRomantic |-> FALSE, IsFlirty |-> FALSE, IsPlatonic |-> FALSE, AllowsFlirting |-> FALSE]

\* analyzeEmotionalContext (getPriorContext returns nil in every case)
analyzeEmotionalContext(context) ==
    [ Keywords |-> extractKeywords(context),
      Sentiment |-> calculateSentiment(context),
      Intensity |-> calculateIntensity(context),
      UserMood |-> extractUserMood(context),
      SapphicContext |-> getCurrentSapphicContext ]

\* calculateMoodScore; the decay factor is 1.0 because PriorContext is nil
calculateMoodScore(pattern, ec) ==
    LET keywordScore == 2000 * Cardinality({k \in pattern.Keywords : containsKeyword(ec.Keywords, k)})
        sentimentAlignment == Scale - Abs(pattern.Sentiment - ec.Sentiment)
        intensityFactor == Min((ec.Intensity * pattern.Intensity) \div Scale, Scale)
    IN  ((keywordScore * 4) \div 10) + ((sentimentAlignment * 3) \div 10) + ((intensityFactor * 3) \div 10)

\* applyPersonalityBias
biases == [sassy |-> 2000, intellectual |-> 1500, flirty |-> 1000]

applyPersonalityBias(scores) ==
    [m \in DOMAIN scores |->
        IF m \in DOMAIN biases THEN Min(scores[m] + biases[m], Scale) ELSE scores[m]]

\* the score selectDominantMood compares for one mood
FlirtyPenalty(score) == score \div 2

AdjustedScore(mood, score, ec) ==
    LET boosted == IF mood = ec.UserMood THEN (score * 12) \div 10 ELSE score
    IN  IF mood = "flirty" /\ ~ec.SapphicContext.AllowsFlirting
        THEN FlirtyPenalty(boosted) ELSE boosted

\* a selection that falls back to neutral whatever the previous intensity
selectDominantMood_NoRetain(scores, ec, current) ==
    LET adj == [m \in DOMAIN scores |-> AdjustedScore(m, scores[m], ec)]
        top == {m \in DOMAIN scores : \A o \in DOMAIN scores : adj[o] <= adj[m]}
    IN  IF \E m \in top : adj[m] < mood_shift THEN {"neutral"} ELSE top

\* selectDominantMood: the set of moods it can return.  The loop ranges over
\* a Go map, so among moods of equal highest score any one can win.
selectDominantMood(scores, ec, current) ==
    LET adj == [m \in DOMAIN scores |-> AdjustedScore(m, scores[m], ec)]
        best == CHOOSE m \in DOMAIN scores : \A o \in DOMAIN scores : adj[o] <= adj[m]
        highestScore == Max(adj[best], -Scale)
        dominant == IF adj[best] > -Scale
                    THEN {m \in DOMAIN scores : adj[m] = adj[best]}
                    ELSE {"neutral"}
    IN  IF highestScore < mood_shift
        THEN IF current.Intensity > mood_shift THEN {current.Primary} ELSE {"neutral"}
        ELSE dominant

\* determinePrimaryMood: the set of moods it can return
determinePrimaryMood(context, current) ==
    LET ec == analyzeEmotionalContext(context)
        moodScores == [m \in Moods |-> calculateMoodScore(moodPatterns[m], ec)]
    IN  selectDominantMood(applyPersonalityBias(moodScores), ec, current)

\* sum of val * change_thresh over the float64 values of the context
ImpactSum(context) ==
    LET F(k) == IF HasKey(context, k) THEN (context[k] * change_thresh) \div Scale ELSE 0
    IN  F("sentiment") + F("intensity") + F("impact")

\* a clamp that lost its lower bound
ClampIntensity_NoFloor(x) == Min(x, max_intensity)

\* the clamp of UpdateMood
ClampIntensity(x) == Max(0, Min(x, max_intensity))

\* the intensity UpdateMood computes
NewIntensity(context, current, t) ==
    LET timeDiff == t - current.Timestamp
        decayFactor == ExpNeg((timeDiff * decay_rate) \div 600)
    IN  ClampIntensity(((current.Intensity * decayFactor) \div Scale) + ImpactSum(context))

\* the context maps UpdateMood is called with
Texts ==
    { {},
      {"haha", "that's", "so", "fun", "lol"},
      {"cute", "pretty", "beautiful", "hot", "gorgeous", "flirt"},
      {"actually", "whatever", "really"},
      {"help", "worry", "sad", "unhappy"} }

Opt(key, values) == {<< >>} \cup {key :> v : v \in values}

MoodContexts ==
    { a @@ b @@ c @@ d @@ e :
        a \in Opt("text", Texts),
        b \in Opt("sentiment", {-10000, 8000}),
        c \in Opt("intensity", {-100000, 10000}),
        d \in Opt("user_mood", {"flirty"}),
        e \in Opt("impact", {-50000, 2000}) }

\* NewMoodEngine: the initial CurrentState
NewMoodEngine == [Primary |-> "neutral", Intensity |-> 5000, Timestamp |-> 0]

\* a history that evicts its oldest entry to make room
RecordHistory_Evicting(h, state) ==
    IF Len(h) >= 1 THEN Append(Tail(h), state) ELSE Append(h, state)

\* a history that puts the newest entry first
RecordHistory_Prepending(h, state) == <<state>> \o h

\* m.History = append(m.History, m.CurrentState)
RecordHistory(h, state) == Append(h, state)

\* UpdateMood(context).  determinePrimaryMood runs while CurrentState is still
\* the previous state.
applyUpdateMood(context) ==
    /\ updateCalls < MaxMoodUpdates
    /\ \E primary \in determinePrimaryMood(context, CurrentState) :
          CurrentState' = [Primary |-> primary,
                           Intensity |-> NewIntensity(context, CurrentState, now),
                           Timestamp |-> now]
    /\ History' = RecordHistory(History, CurrentState)
    /\ updateCalls' = updateCalls + 1

\* what a context map carries: the words of its text, and whether it holds
\* any other entry (a signal)
ContentOf(context) ==
    [text |-> TextOf(context), signals |-> (DOMAIN context \ {"text"}) # {}]

\* the highest of the scores the loop of selectDominantMood compares for a
\* context map, and the moods that have it
TopScore(context) ==
    LET ec == analyzeEmotionalContext(context)
        scores == applyPersonalityBias([m \in Moods |-> calculateMoodScore(moodPatterns[m], ec)])
        adj == [m \in Moods |-> AdjustedScore(m, scores[m], ec)]
        top == {m \in Moods : \A o \in Moods : adj[o] <= adj[m]}
    IN  [highest |-> adj[CHOOSE m \in top : TRUE], moods |-> top]

\* UpdateMood(context) called on its own; it returns nil in every case
UpdateMood(context) ==
    /\ applyUpdateMood(context)
    /\ result' = [op |-> "UpdateMood", arg |-> ContentOf(context), err |-> FALSE,
                  top |-> TopScore(context)]

MoodInitState ==
    /\ CurrentState = NewMoodEngine
    /\ History = << >>
    /\ updateCalls = 0

----------------------------------------------------------------------------
(* Persona system: persona_system.go and the persona code of InputBox.tsx *)

\* the zero time.Time
ZeroTime == -1

\* nil *Persona
NoPersona == "<nil>"

\* 5 * time.Minute
CooldownMinutes == 5

\* initializeDefaultPersonas
PersonaIDs == {"sapphic_teaser", "geeky_assistant"}

NewPersonaSystem == [id \in PersonaIDs |-> [Active |-> FALSE, LastUsed |-> ZeroTime]]

\* the IDs SwitchPersona is called with
TargetIDs == PersonaIDs \cup {"nonexistent_id"}

Reasons == {"test", "mood"}

\* canTransition without the cooldown check
canTransition_NoCooldown(targetPersonaID) == targetPersonaID \in DOMAIN personas

\* canTransition without the existence check
canTransition_NoExistence(targetPersonaID) ==
    ~(/\ targetPersonaID \in DOMAIN cooldowns
      /\ now - cooldowns[targetPersonaID] < CooldownMinutes)

\* canTransition
canTransition(targetPersonaID) ==
    /\ targetPersonaID \in DOMAIN personas
    /\ ~(/\ targetPersonaID \in DOMAIN cooldowns
         /\ now - cooldowns[targetPersonaID] < CooldownMinutes)

\* a deactivation that leaves the old persona active
Deactivate_Noop(ps, id) == ps

\* ps.activePersona.Active = false
Deactivate(ps, id) ==
    [p \in DOMAIN ps |-> IF p = id THEN [ps[p] EXCEPT !.Active = FALSE] ELSE ps[p]]

\* newPersona.Active = true; newPersona.LastUsed = time.Now()
Activate(ps, id, t) ==
    [p \in DOMAIN ps |-> IF p = id THEN [Active |-> TRUE, LastUsed |-> t] ELSE ps[p]]

\* a transition that leaves the cooldown table as it was
RecordCooldown_Skipped(cd, toID, t) == cd

\* ApplyTransition: the cooldown stamp
RecordCooldown(cd, toID, t) == (toID :> t) @@ cd

\* ApplyTransition: the transition weight, += 0.1
RecordTransition(tr, fromID, toID) ==
    LET old == IF <<fromID, toID>> \in DOMAIN tr THEN tr[<<fromID, toID>>] ELSE 0
    IN  (<<fromID, toID>> :> (old + 1000)) @@ tr

\* SwitchPersona(targetPersonaID, reason)
SwitchPersona(targetPersonaID, reason) ==
    IF ~canTransition(targetPersonaID)
    THEN /\ result' = [op |-> "SwitchPersona", arg |-> targetPersonaID, err |-> TRUE]
         /\ UNCHANGED personaVars
    ELSE LET oldPersonaID == IF activePersona # NoPersona THEN activePersona ELSE ""
         IN  /\ Len(history) < MaxSwitches
             /\ personas' = Activate(Deactivate(personas, oldPersonaID), targetPersonaID, now)
             /\ activePersona' = targetPersonaID
             /\ history' = Append(history, [Timestamp |-> now, Type |-> "transition",
                                            FromPersona |-> oldPersonaID,
                                            ToPersona |-> targetPersonaID,
                                            Reason |-> reason,
                                            Context |-> "&ps.context"])
             /\ UNCHANGED <<psContext, switchCalls>>
             /\ cooldowns' = RecordCooldown(cooldowns, targetPersonaID, now)
             /\ transitions' = RecordTransition(transitions, oldPersonaID, targetPersonaID)
             /\ result' = [op |-> "SwitchPersona", arg |-> targetPersonaID, err |-> FALSE]

\* initializeDefaultPersonas: the style rules, in declaration order; no rule
\* declares a constraint
StyleRules ==
    [ sapphic_teaser |->
        << [Condition |-> "feminine_presence", Response |-> "flirty", Tone |-> "playful",
            Priority |-> 1, Constraints |-> {}],
           [Condition |-> "romantic_context", Response |-> "romantic", Tone |-> "gentle",
            Priority |-> 2, Constraints |-> {}] >>,
      geeky_assistant |->
        << [Condition |-> "technical_discussion", Response |-> "detailed",
            Tone |-> "enthusiastic", Priority |-> 1, Constraints |-> {}] >> ]

\* matchesCondition(condition, context): the switch reads ps.context
matchesCondition(condition, context) ==
    CASE condition = "feminine_presence" -> psContext.CurrentMood \in {"flirty", "romantic"}
      [] condition = "romantic_context" -> psContext.CurrentMood = "romantic"
      [] condition = "technical_discussion" -> psContext.CurrentMood \in {"focused", "analytical"}
      [] OTHER -> FALSE

\* validateConstraints(constraints): no constraint is in ps.context.Restrictions
validateConstraints(constraints) == constraints \cap psContext.Restrictions = {}

\* a scan that keeps the first rule it accepts
bestRule_FirstMatch(rules, n, context) ==
    LET accepted == { i \in 1..n : /\ matchesCondition(rules[i].Condition, context)
                                   /\ validateConstraints(rules[i].Constraints) }
    IN  IF accepted = {}
        THEN [Condition |-> "", Response |-> "", Tone |-> "", Priority |-> 0, Constraints |-> {}]
        ELSE rules[CHOOSE i \in accepted : \A j \in accepted : i <= j]

\* GetResponseStyle, the loop: bestRule after the first n rules, bestPriority
\* being -1 as long as bestRule is the zero PersonaStyleRule
RECURSIVE bestRule(_, _, _)
bestRule(rules, n, context) ==
    IF n = 0
    THEN [Condition |-> "", Response |-> "", Tone |-> "", Priority |-> 0, Constraints |-> {}]
    ELSE LET previous == bestRule(rules, n - 1, context)
             bestPriority == IF previous.Condition = "" THEN -1 ELSE previous.Priority
         IN  IF /\ matchesCondition(rules[n].Condition, context)
                /\ rules[n].Priority > bestPriority
                /\ validateConstraints(rules[n].Constraints)
             THEN rules[n]
             ELSE previous

\* GetResponseStyle(context); the returned rule is in the result
GetResponseStyle(context) ==
    /\ result' = [ op |-> "GetResponseStyle",
                   arg |-> [ context |-> context,
                             rule |-> IF activePersona = NoPersona
                                      THEN bestRule(<< >>, 0, context)
                                      ELSE bestRule(StyleRules[activePersona],
                                                    Len(StyleRules[activePersona]), context) ],
                   err |-> FALSE ]
    /\ UNCHANGED personaVars

\* UpdateContext(update): the mood when the update has one, the restrictions
\* in every case
UpdateContext(update) ==
    /\ psContext' = [ CurrentMood |-> IF update.CurrentMood # "" THEN update.CurrentMood
                                      ELSE psContext.CurrentMood,
                      Restrictions |-> update.Restrictions ]
    /\ result' = [op |-> "UpdateContext", arg |-> update, err |-> FALSE]
    /\ UNCHANGED <<personas, activePersona, history, cooldowns, transitions, switchCalls>>

\* the callers that run SwitchPersona concurrently on the one PersonaSystem
Calls == {"session1", "session2"}

\* a call that has not entered SwitchPersona
IdleCall ==
    [ pc |-> "idle", target |-> "", reason |-> "", oldPersonaID |-> "",
      seen |-> << >>, activatedAt |-> ZeroTime, err |-> FALSE ]

\* SwitchPersona(targetPersonaID, reason) entered by a caller; the code takes
\* no lock, so its statements interleave with those of the other caller
SwitchEnter(c, targetPersonaID, reason) ==
    /\ switchCalls[c].pc = "idle"
    /\ switchCalls' = [switchCalls EXCEPT ![c] = [IdleCall EXCEPT !.pc = "canTransition",
                                                                 !.target = targetPersonaID,
                                                                 !.reason = reason]]
    /\ result' = [op |-> "SwitchPersona.enter", arg |-> <<c, targetPersonaID>>, err |-> FALSE]
    /\ UNCHANGED <<personas, activePersona, history, cooldowns, transitions, psContext>>

\* SwitchPersona, the next statement of a caller.  The append to ps.history
\* reads the slice and writes it back, so it is two steps.
SwitchStatement(c) ==
    LET call == switchCalls[c]
        oldPersonaID == IF activePersona # NoPersona THEN activePersona ELSE ""
        event == [ Timestamp |-> now, Type |-> "transition",
                   FromPersona |-> call.oldPersonaID, ToPersona |-> call.target,
                   Reason |-> call.reason, Context |-> "&ps.context" ]
    IN  /\ \/ /\ call.pc = "canTransition"
              /\ switchCalls' = IF canTransition(call.target)
                                THEN [switchCalls EXCEPT ![c].pc = "deactivate"]
                                ELSE [switchCalls EXCEPT ![c].pc = "done", ![c].err = TRUE]
              /\ UNCHANGED <<personas, activePersona, history, cooldowns, transitions>>
           \/ /\ call.pc = "deactivate"
              /\ personas' = Deactivate(personas, oldPersonaID)
              /\ switchCalls' = [switchCalls EXCEPT ![c].pc = "activate",
                                                    ![c].oldPersonaID = oldPersonaID]
              /\ UNCHANGED <<activePersona, history, cooldowns, transitions>>
           \/ /\ call.pc = "activate"
              /\ personas' = Activate(personas, call.target, now)
              /\ switchCalls' = [switchCalls EXCEPT ![c].pc = "designate",
                                                    ![c].activatedAt = now]
              /\ UNCHANGED <<activePersona, history, cooldowns, transitions>>
           \/ /\ call.pc = "designate"
              /\ activePersona' = call.target
              /\ switchCalls' = [switchCalls EXCEPT ![c].pc = "append"]
              /\ UNCHANGED <<personas, history, cooldowns, transitions>>
           \/ /\ call.pc = "append"
              /\ switchCalls' = [switchCalls EXCEPT ![c].pc = "store", ![c].seen = history]
              /\ UNCHANGED <<personas, activePersona, history, cooldowns, transitions>>
           \/ /\ call.pc = "store"
              /\ history' = Append(call.seen, event)
              /\ switchCalls' = [switchCalls EXCEPT ![c].pc = "cooldown", ![c].seen = << >>]
              /\ UNCHANGED <<personas, activePersona, cooldowns, transitions>>
           \/ /\ call.pc = "cooldown"
              /\ cooldowns' = RecordCooldown(cooldowns, call.target, now)
              /\ switchCalls' = [switchCalls EXCEPT ![c].pc = "weight"]
              /\ UNCHANGED <<personas, activePersona, history, transitions>>
           \/ /\ call.pc = "weight"
              /\ transitions' = RecordTransition(transitions, call.oldPersonaID, call.target)
              /\ switchCalls' = [switchCalls EXCEPT ![c].pc = "done"]
              /\ UNCHANGED <<personas, activePersona, history, cooldowns>>
        /\ result' = [op |-> "SwitchPersona." \o call.pc, arg |-> <<c, call.target>>,
                      err |-> call.pc = "canTransition" /\ ~canTransition(call.target)]
        /\ UNCHANGED psContext

\* two callers about to write the same Go map (cooldowns, or the transition
\* weights): the runtime can end the program with "concurrent map writes"
ConcurrentMapWrites ==
    /\ \E c, d \in Calls :
          /\ c # d
          /\ switchCalls[c].pc \in {"cooldown", "weight"}
          /\ switchCalls[d].pc = switchCalls[c].pc
    /\ switchCalls' = [c \in Calls |-> [switchCalls[c] EXCEPT !.pc = "fatal"]]
    /\ result' = [op |-> "fatal error", arg |-> "concurrent map writes", err |-> TRUE]
    /\ UNCHANGED <<personas, activePersona, history, cooldowns, transitions, psContext>>

PersonaInitState ==
    /\ switchCalls = [c \in Calls |-> IdleCall]
    /\ psContext = [CurrentMood |-> "", Restrictions |-> {}]
    /\ personas = NewPersonaSystem
    /\ activePersona = NoPersona
    /\ history = << >>
    /\ cooldowns = << >>
    /\ transitions = << >>

----------------------------------------------------------------------------
(* Bias and normalization layer: normalization.go *)

\* NewNormalizationSystem
Weights ==
    [ sapphic |-> 10000, intellectual |-> 8000, sassy |-> 7000,
      protective |-> 6000, playful |-> 5000, neutral |-> 3000 ]

MinThresholds ==
    [ flirty |-> 3000, sassy |-> 2000, intellectual |-> 1500,
      protective |-> 2500, playful |-> 1000 ]

MaxThresholds ==
    [ flirty |-> 8000, sassy |-> 9000, intellectual |-> 9500,
      protective |-> 8500, playful |-> 7000 ]

\* m[key] on a Go map of float64: the zero value when the key is absent
Lookup(m, key) == IF key \in DOMAIN m THEN m[key] ELSE 0

\* getContextWeight
getContextWeight(mood, context) ==
    IF mood = "flirty" /\ ~context.SapphicContext.AllowsFlirting THEN 0
    ELSE LET w1 == IF mood = "flirty" /\ context.SapphicContext.IsRomantic
                   THEN 12000 ELSE Scale
             w2 == IF context.IsEmotional /\ mood \in {"protective", "caring"}
                   THEN (w1 * 13000) \div Scale ELSE w1
         IN  IF context.IsEmotional /\ mood = "sassy"
             THEN (w2 * 7000) \div Scale ELSE w2

\* the first loop of NormalizeScores: weighting and thresholds
applyThresholds(scores, context) ==
    [mood \in DOMAIN scores |->
        LET weighted == (((scores[mood] * Lookup(Weights, mood)) \div Scale)
                            * getContextWeight(mood, context)) \div Scale
            floored == IF mood \in DOMAIN MinThresholds /\ weighted < MinThresholds[mood]
                       THEN 0 ELSE weighted
        IN  IF mood \in DOMAIN MaxThresholds /\ floored > MaxThresholds[mood]
            THEN MaxThresholds[mood] ELSE floored]

\* smoothTransitions
smoothTransitions(scores, context) ==
    [mood \in DOMAIN scores |->
        LET prevScore == Lookup(context.PreviousScores, mood)
            maxChange == IF context.IsEmotional THEN 5000 ELSE 3000
            diff == scores[mood] - prevScore
        IN  IF Abs(diff) > maxChange
            THEN IF diff > 0 THEN prevScore + maxChange ELSE prevScore - maxChange
            ELSE scores[mood]]

RECURSIVE SumOver(_, _)
SumOver(f, keys) ==
    IF keys = {} THEN 0
    ELSE LET k == CHOOSE x \in keys : TRUE IN f[k] + SumOver(f, keys \ {k})

\* a / b on float64: the representable value nearest to the quotient
Quotient(a, b) == (2 * a * Scale + b) \div (2 * b)

\* the rescaling left out: the scores returned as they are
normalizeSum_NoRescale(scores) == scores

\* normalizeSum
normalizeSum(scores) ==
    LET total == SumOver(scores, DOMAIN scores)
    IN  IF total > Scale
        THEN [mood \in DOMAIN scores |-> Quotient(scores[mood], total)]
        ELSE scores

\* NormalizeScores
NormalizeScores(scores, context) ==
    normalizeSum(smoothTransitions(applyThresholds(scores, context), context))

\* the moods of the score vectors NormalizeScores is called with
NormMoods == {"flirty", "sassy", "protective", "sapphic"}

\* the maps from some of the moods to the given values
ScoreMaps(values) == UNION {[d -> values] : d \in SUBSET NormMoods}

RawScores == ScoreMaps({-5000, 5000, 10000})

PreviousScoreMaps == ScoreMaps({0, 2000, 8000})

ContextAnalyses ==
    { [ IsEmotional |-> e,
        SapphicContext |-> [AllowsFlirting |-> a, IsRomantic |-> r],
        PreviousScores |-> prev ] :
        e \in BOOLEAN, a \in BOOLEAN, r \in BOOLEAN, prev \in PreviousScoreMaps }

\* one call of NormalizeScores, on the arguments held in normIn
Normalize ==
    /\ result.op = "init"
    /\ normOut' = NormalizeScores(normIn.scores, normIn.context)
    /\ result' = [op |-> "NormalizeScores", arg |-> "scores", err |-> FALSE]
    /\ UNCHANGED normIn

\* a second call of NormalizeScores, on the vector the first call returned
\* and under the same context
NormalizeReturned ==
    /\ result.op = "NormalizeScores"
    /\ result.arg = "scores"
    /\ normIn' = [normIn EXCEPT !.scores = normOut]
    /\ normOut' = NormalizeScores(normOut, normIn.context)
    /\ result' = [op |-> "NormalizeScores", arg |-> "returned", err |-> FALSE]

NormInitState ==
    /\ normIn = [scores |-> << >>,
                 context |-> [ IsEmotional |-> FALSE,
                               SapphicContext |-> [AllowsFlirting |-> FALSE, IsRomantic |-> FALSE],
                               PreviousScores |-> << >> ]]
    /\ normOut = << >>

----------------------------------------------------------------------------
(* Topic threader: topic_threading.go, and the relationship graph of        *)
(* pattern_analysis.go.  The emotional context a thread points to and the  *)
(* mood attributes of a node are written but never read by the operations  *)
(* modelled here, and are left out.                                        *)

\* NewTopicManager
MaxThreadDepth == 5

\* initializeDomainRules: the Transitions of each domain
DomainRules ==
    [ tech |-> [Transitions |-> [science |-> 8000, gaming |-> 7000, sapphic |-> 5000]],
      sapphic |-> [Transitions |-> [gaming |-> 6000, tech |-> 5000, memes |-> 7000]],
      gaming |-> [Transitions |-> [tech |-> 6000, sapphic |-> 6000, memes |-> 8000]] ]

Domains == DOMAIN DomainRules

\* the topic names updateThread and createNewThread are called with
Topics == Domains \cup {"science", "memes", "art"}

\* getDomain: the domain a topic belongs to, "" when it has none
getDomain(topic) == IF topic \in Domains THEN topic ELSE ""

\* calculateRelationshipScore
calculateRelationshipScore(topic1, topic2) ==
    LET domain1 == getDomain(topic1)
        domain2 == getDomain(topic2)
    IN  IF domain1 = "" \/ domain2 = "" THEN 0
        ELSE IF domain2 \in DOMAIN DomainRules[domain1].Transitions
             THEN DomainRules[domain1].Transitions[domain2]
             ELSE 0

\* node.Related[key] = score
SetRelated(graph, node, key, score) ==
    [graph EXCEPT ![node].Related = (key :> score) @@ @]

\* a relationship update that writes one direction only
RelateBoth_OneWay(graph, topic, existingTopic) ==
    SetRelated(graph, topic, existingTopic, calculateRelationshipScore(topic, existingTopic))

\* updateThread, the body of the relationship loop:
\* currentNode.Related[existingTopic] = score; existingNode.Related[topic] = the same
RelateBoth(graph, topic, existingTopic) ==
    LET score == calculateRelationshipScore(topic, existingTopic)
    IN  SetRelated(SetRelated(graph, topic, existingTopic, score), existingTopic, topic, score)

\* updateThread, the relationship loop over thread.ActiveNodes
RECURSIVE updateRelationships(_, _, _)
updateRelationships(graph, topic, nodes) ==
    IF nodes = << >> THEN graph
    ELSE LET next == IF Head(nodes) \in DOMAIN graph
                     THEN RelateBoth(graph, topic, Head(nodes))
                     ELSE graph
         IN  updateRelationships(next, topic, Tail(nodes))

\* contains(slice, item)
contains(slice, item) == \E i \in 1..Len(slice) : slice[i] = item

\* an append that drops the newest entry when the thread is full
addActiveNode_DropNewest(nodes, topic) ==
    IF contains(nodes, topic) THEN nodes
    ELSE SubSeq(Append(nodes, topic), 1, Min(Len(nodes) + 1, MaxThreadDepth))

\* updateThread, the last block: append the topic if absent, keep the depth
addActiveNode(nodes, topic) ==
    IF contains(nodes, topic) THEN nodes
    ELSE LET appended == Append(nodes, topic)
         IN  IF Len(appended) > MaxThreadDepth THEN Tail(appended) ELSE appended

\* updateThread(thread, topic, context)
updateThread(id, topic) ==
    LET thread == ActiveThreads[id]
        withNode == IF topic \in DOMAIN TopicGraph THEN TopicGraph
                    ELSE (topic :> [Related |-> << >>]) @@ TopicGraph
    IN  /\ TopicGraph' = updateRelationships(withNode, topic, thread.ActiveNodes)
        /\ ActiveThreads' = [ActiveThreads EXCEPT
                                ![id].LastActive = now,
                                ![id].ActiveNodes = addActiveNode(thread.ActiveNodes, topic)]
        /\ result' = [op |-> "updateThread", arg |-> <<id, topic>>, err |-> FALSE]
        /\ UNCHANGED <<threadsCreated, relationshipGraph, archivedThreads, inputsProcessed,
                     cache, topicRows, persistCalls>>

\* createNewThread(topic, context)
createNewThread(topic) ==
    /\ ActiveThreads' = ((threadsCreated + 1) :>
                            [ ActiveNodes |-> <<topic>>, MainTopic |-> topic,
                              StartTime |-> now, LastActive |-> now ]) @@ ActiveThreads
    /\ threadsCreated' = threadsCreated + 1
    /\ result' = [op |-> "createNewThread", arg |-> topic, err |-> FALSE]
    /\ UNCHANGED <<TopicGraph, relationshipGraph, topicOps, archivedThreads, inputsProcessed,
                 cache, topicRows, persistCalls>>

\* m[from][to] = strength, creating m[from] when it is absent
SetEdge(graph, from, to, strength) ==
    LET row == IF from \in DOMAIN graph THEN graph[from] ELSE << >>
    IN  (from :> ((to :> strength) @@ row)) @@ graph

\* UpdateRelationshipGraph(from, to, strength)
UpdateRelationshipGraph(from, to, strength) ==
    /\ relationshipGraph' = SetEdge(SetEdge(relationshipGraph, from, to, strength), to, from, strength)
    /\ result' = [op |-> "UpdateRelationshipGraph", arg |-> from, err |-> FALSE]
    /\ UNCHANGED <<ActiveThreads, TopicGraph, threadsCreated, archivedThreads, inputsProcessed,
                 cache, topicRows, persistCalls>>

\* NewTopicManager: MinConfidence
MinConfidence == 6000

\* detectTopics(input): the domains whose keywords occur often enough in the
\* input, each occurrence adding 0.2; the input is given as the number of
\* keyword occurrences per domain, and no domain rule has a validator
detectTopics(input) == {d \in Domains : 2000 * input[d] >= MinConfidence}

\* a relevance that takes every thread for fully relevant to every topic
calculateThreadRelevance_Flat(thread, graph, topic) == Scale

\* calculateThreadRelevance, with DecayRate 0.1 per minute
calculateThreadRelevance(thread, graph, topic) ==
    LET hit == [i \in 1..Len(thread.ActiveNodes) |->
                  (IF thread.ActiveNodes[i] = topic THEN Scale ELSE 0)
                  + (IF /\ thread.ActiveNodes[i] \in DOMAIN graph
                        /\ topic \in DOMAIN graph[thread.ActiveNodes[i]].Related
                     THEN graph[thread.ActiveNodes[i]].Related[topic] ELSE 0)]
    IN  (SumOver(hit, DOMAIN hit) * ExpNeg(100 * (now - thread.LastActive))) \div Scale

\* a lookup that accepts any thread, whatever its relevance
findRelevantThread_AnyThread(threads, graph, topic) == DOMAIN threads

\* findRelevantThread: the IDs of the threads it can return, none for nil.
\* The loop ranges over a Go map, so among threads of equal highest relevance
\* any one can win.
findRelevantThread(threads, graph, topic) ==
    LET relevance(id) == calculateThreadRelevance(threads[id], graph, topic)
    IN  { id \in DOMAIN threads :
            /\ relevance(id) > 0
            /\ relevance(id) >= MinConfidence
            /\ \A other \in DOMAIN threads : relevance(other) <= relevance(id) }

\* ProcessInput, the loop over the detected topics: the states it can end
\* in, a state being [threads, graph, created]
RECURSIVE processTopics(_, _)
processTopics(st, topics) ==
    IF topics = << >> THEN {st}
    ELSE LET topic == Head(topics)
             found == findRelevantThread(st.threads, st.graph, topic)
             withNode == IF topic \in DOMAIN st.graph THEN st.graph
                         ELSE (topic :> [Related |-> << >>]) @@ st.graph
             updated(id) ==
                 [ threads |-> [st.threads EXCEPT
                                  ![id].LastActive = now,
                                  ![id].ActiveNodes = addActiveNode(@, topic)],
                   graph |-> updateRelationships(withNode, topic, st.threads[id].ActiveNodes),
                   created |-> st.created ]
             createdNew ==
                 [ threads |-> ((st.created + 1) :>
                                  [ ActiveNodes |-> <<topic>>, MainTopic |-> topic,
                                    StartTime |-> now, LastActive |-> now ]) @@ st.threads,
                   graph |-> st.graph,
                   created |-> st.created + 1 ]
             next == IF found = {} THEN {createdNew} ELSE {updated(id) : id \in found}
         IN  UNION {processTopics(n, Tail(topics)) : n \in next}

\* archiveThread(thread): a TODO, nothing is stored
archiveThread(archive, thread) == archive

\* pruneThreads, the loop over the threads ids: a thread inactive for more
\* than 30 minutes is passed to archiveThread and deleted
RECURSIVE pruneThreads(_, _, _)
pruneThreads(threads, archive, ids) ==
    IF ids = {} THEN [threads |-> threads, archive |-> archive]
    ELSE LET id == CHOOSE i \in ids : TRUE
         IN  IF now - threads[id].LastActive > 30
             THEN pruneThreads([i \in DOMAIN threads \ {id} |-> threads[i]],
                               archiveThread(archive, threads[id]), ids \ {id})
             ELSE pruneThreads(threads, archive, ids \ {id})

\* ProcessInput(input, context): detection, the loop over the detections in
\* the order the Go map yields them, pruneThreads
ProcessInput(input) ==
    LET detected == detectTopics(input)
        orders == {o \in [1..Cardinality(detected) -> detected] :
                      \A i, j \in DOMAIN o : i # j => o[i] # o[j]}
        start == [threads |-> ActiveThreads, graph |-> TopicGraph, created |-> threadsCreated]
    IN  /\ inputsProcessed < MaxInputs
        /\ \E o \in orders : \E st \in processTopics(start, o) :
              LET pruned == pruneThreads(st.threads, archivedThreads, DOMAIN st.threads)
              IN  /\ ActiveThreads' = pruned.threads
                  /\ TopicGraph' = st.graph
                  /\ threadsCreated' = st.created
                  /\ archivedThreads' = pruned.archive
        /\ inputsProcessed' = inputsProcessed + 1
        /\ result' = [op |-> "ProcessInput", arg |-> input, err |-> FALSE]
        /\ UNCHANGED <<relationshipGraph, topicOps, cache, topicRows, persistCalls>>

\* the inputs ProcessInput is called with: keyword occurrences per domain
Inputs ==
    { [tech |-> 0, gaming |-> 0, sapphic |-> 0], [tech |-> 3, gaming |-> 0, sapphic |-> 0],
      [tech |-> 0, gaming |-> 3, sapphic |-> 0], [tech |-> 3, gaming |-> 4, sapphic |-> 0],
      [tech |-> 2, gaming |-> 0, sapphic |-> 3] }

\* NewTopicPersistence: maxCacheAge, 24 hours in minutes
maxCacheAge == 1440

\* SaveTopic(topic): the upsert, then the cache entry; dbOk is whether the
\* store executes the statement.  A conflicting row keeps its domain and
\* counts its frequency up.
SaveTopic(topic, dbOk) ==
    /\ persistCalls < MaxPersistCalls
    /\ persistCalls' = persistCalls + 1
    /\ IF dbOk
       THEN /\ topicRows' = (topic.ID :>
                            IF topic.ID \in DOMAIN topicRows
                            THEN [topic EXCEPT !.Domain = topicRows[topic.ID].Domain,
                                               !.Frequency = topicRows[topic.ID].Frequency + 1]
                            ELSE topic) @@ topicRows
            /\ cache' = (topic.ID :> [Data |-> topic, LastUsed |-> now, UseCount |-> 1]) @@ cache
       ELSE UNCHANGED <<topicRows, cache>>
    /\ result' = [op |-> "SaveTopic", arg |-> topic, err |-> ~dbOk]
    /\ UNCHANGED <<ActiveThreads, TopicGraph, threadsCreated, relationshipGraph, topicOps,
                   archivedThreads, inputsProcessed>>

\* LoadTopic(id): a cache entry younger than maxCacheAge is returned without
\* a query; otherwise the row is queried, and a query that fails (the store
\* is down, or holds no such row) returns nil and the error.  The returned
\* data is in the result, [ID |-> ""] for nil.
LoadTopic(id, dbOk) ==
    LET fresh == id \in DOMAIN cache /\ now - cache[id].LastUsed < maxCacheAge
        found == dbOk /\ id \in DOMAIN topicRows
    IN  /\ persistCalls < MaxPersistCalls
        /\ persistCalls' = persistCalls + 1
        /\ cache' = IF fresh
                    THEN [cache EXCEPT ![id].UseCount = @ + 1, ![id].LastUsed = now]
                    ELSE IF found
                    THEN (id :> [Data |-> topicRows[id], LastUsed |-> now, UseCount |-> 1]) @@ cache
                    ELSE cache
        /\ result' = [ op |-> "LoadTopic",
                       arg |-> [ id |-> id, dbOk |-> dbOk,
                                 data |-> IF fresh THEN cache[id].Data
                                          ELSE IF found THEN topicRows[id]
                                          ELSE [ID |-> ""] ],
                       err |-> ~fresh /\ ~found ]
        /\ UNCHANGED <<topicRows, ActiveThreads, TopicGraph, threadsCreated, relationshipGraph,
                       topicOps, archivedThreads, inputsProcessed>>

TopicInitState ==
    /\ cache = << >>
    /\ topicRows = << >>
    /\ persistCalls = 0
    /\ ActiveThreads = << >>
    /\ TopicGraph = << >>
    /\ threadsCreated = 0
    /\ relationshipGraph = << >>
    /\ topicOps = 0
    /\ archivedThreads = {}
    /\ inputsProcessed = 0

----------------------------------------------------------------------------
(* Session flow coordinator: session_flow.go *)

\* nil *Session
NoSession == [ID |-> 0]

Users == {"u1", "u2"}

\* SessionHistory.GetRecentSession: NoSession for nil
GetRecentSession(userID) ==
    IF userID \in DOMAIN sessionHistory.userHistory /\ Len(sessionHistory.userHistory[userID]) > 0
    THEN sessionHistory.sessions[sessionHistory.userHistory[userID][Len(sessionHistory.userHistory[userID])]]
    ELSE NoSession

\* StateManager.InitializeState; MoodState "<nil>" is the nil pointer
InitializeState ==
    [ MoodState |-> "<nil>", ActivePersona |-> "", CurrentTopics |-> << >>,
      MemoryFocus |-> << >>, UserContext |-> << >> ]

\* StateManager.MergeState
MergeState(previous, newContext) ==
    [previous EXCEPT !.UserContext = newContext @@ @]

\* the contexts StartSession is called with
InitialContexts == {<< >>, "name" :> "Klea"}

\* StartSession(userID, initialContext): continueSession when the user has a
\* recent session, a new session otherwise
StartSession(userID, initialContext) ==
    LET recentSession == GetRecentSession(userID)
        id == sessionsStarted + 1
        session ==
              IF recentSession # NoSession
              THEN [ ID |-> id, UserID |-> recentSession.UserID,
                     StartTime |-> now, LastActive |-> now,
                     CurrentState |-> MergeState(recentSession.CurrentState, initialContext),
                     Checkpoints |-> << >> ]
              ELSE [ ID |-> id, UserID |-> userID,
                     StartTime |-> now, LastActive |-> now,
                     CurrentState |-> InitializeState,
                     Checkpoints |-> << >> ]
    IN  /\ sessionsStarted < MaxSessions
        /\ activeSession' = session
        /\ returnedSessions' = Append(returnedSessions, session)
        /\ sessionsStarted' = id
        /\ result' = [op |-> "StartSession", arg |-> <<userID, initialContext>>, err |-> FALSE]
        /\ UNCHANGED <<sessionHistory, moodVars, personaVars, topicVars>>

\* the mood engine processing an interaction before the session is looked at
rejectInteraction_AfterProcessing ==
    /\ applyUpdateMood(<< >>)
    /\ result' = [op |-> "ProcessInteraction", arg |-> "interaction", err |-> TRUE]
    /\ UNCHANGED <<sessionVars, personaVars, topicVars>>

\* ProcessInteraction, no active session: return fmt.Errorf("no active session")
rejectInteraction ==
    /\ result' = [op |-> "ProcessInteraction", arg |-> "interaction", err |-> TRUE]
    /\ UNCHANGED <<sessionVars, moodVars, personaVars, topicVars>>

\* updateSessionState: the updates of the four subsystems merged into the
\* state.  The mood update points at the engine's CurrentState; the session
\* context holds no topics and no recent events, so the topic and timeline
\* updates are empty.
updateSessionState(state) ==
    [state EXCEPT !.MoodState = "&CurrentState",
                  !.ActivePersona = IF activePersona # NoPersona THEN activePersona ELSE "",
                  !.CurrentTopics = << >>,
                  !.MemoryFocus = << >>]

\* the active session is the object its caller holds: a write through
\* sfm.activeSession is a write to that object
writeActiveSession(session) ==
    /\ activeSession' = session
    /\ returnedSessions' = [returnedSessions EXCEPT ![session.ID] = session]

\* ProcessInteraction, with an active session: the timestamp, the four
\* subsystems, the merge; shouldCreateCheckpoint is false in every case
processInteraction ==
    /\ applyUpdateMood(<< >>)
    /\ writeActiveSession([activeSession EXCEPT
                              !.LastActive = now,
                              !.CurrentState = updateSessionState(@)])
    /\ result' = [op |-> "ProcessInteraction", arg |-> "interaction", err |-> FALSE]
    /\ UNCHANGED <<sessionHistory, sessionsStarted, personaVars, topicVars>>

\* ProcessInteraction(interaction)
ProcessInteraction ==
    IF activeSession = NoSession THEN rejectInteraction ELSE processInteraction

\* ProcessInteraction stopped by a panic in a subsystem that runs after the
\* mood engine (a TopicMemory whose analyzer is nil): the timestamp is written
\* and the mood engine has processed the interaction, updateSessionState is
\* never reached
abortInteraction ==
    /\ activeSession # NoSession
    /\ applyUpdateMood(<< >>)
    /\ writeActiveSession([activeSession EXCEPT !.LastActive = now])
    /\ result' = [op |-> "ProcessInteraction", arg |-> "aborted", err |-> TRUE]
    /\ UNCHANGED <<sessionHistory, sessionsStarted, personaVars, topicVars>>

\* StateManager.CopyState: the slices and maps are copied, the MoodState
\* pointer is copied as a pointer
CopyState(state) ==
    [ MoodState |-> state.MoodState, ActivePersona |-> state.ActivePersona,
      CurrentTopics |-> state.CurrentTopics, MemoryFocus |-> state.MemoryFocus,
      UserContext |-> state.UserContext ]

\* createCheckpoint(): ProcessInteraction calls it when shouldCreateCheckpoint
\* holds, which the stub never does; here the method is called on its own,
\* with an active session
createCheckpoint ==
    /\ activeSession # NoSession
    /\ Len(activeSession.Checkpoints) < MaxCheckpoints
    /\ writeActiveSession([activeSession EXCEPT
                              !.Checkpoints = Append(@, [Timestamp |-> now,
                                                         State |-> CopyState(activeSession.CurrentState)])])
    /\ result' = [op |-> "createCheckpoint", arg |-> activeSession.ID, err |-> FALSE]
    /\ UNCHANGED <<sessionHistory, sessionsStarted, moodVars, personaVars, topicVars>>

\* the MoodState a session's state points at: the mood engine's CurrentState
\* once an interaction was merged, nothing before
sessionMoodState(session) ==
    IF session.CurrentState.MoodState = "&CurrentState"
    THEN CurrentState
    ELSE [Primary |-> "<nil>"]

SessionInitState ==
    /\ activeSession = NoSession
    /\ sessionHistory = [sessions |-> << >>, userHistory |-> << >>]
    /\ sessionsStarted = 0
    /\ returnedSessions = << >>

----------------------------------------------------------------------------
(* Timeline memory: TimelineMemory (part_018) with the implemented helpers  *)
(* (part_017, part_022).  Shared topics and preferences of a relationship   *)
(* are left out.                                                            *)

\* ImportanceCalculator.CalculateImportance, for an event scored at `now`
CalculateImportance(event) ==
    LET weights == [emotional |-> 4000, personal |-> 3000, relationship |-> 2000, achievement |-> 1000]
        positive == {event.Emotions[k] : k \in DOMAIN event.Emotions} \cap Nat
        maxEmotion == IF positive = {} THEN 0 ELSE CHOOSE v \in positive : \A o \in positive : o <= v
        base == Lookup(weights, event.Type)
        emotional == IF DOMAIN event.Emotions # {}
                     THEN (base * (Scale + maxEmotion)) \div Scale ELSE base
        recencyFactor == ExpNeg(((now - event.Timestamp) * 25) \div 252)
    IN  Min(Scale, (emotional * (7000 + ((3 * recencyFactor) \div 10))) \div Scale)

\* calculateTrustImpact; the case RelationshipEvent is the "relationship" label
calculateTrustImpact(event) ==
    LET impact == CASE event.Type = "personal" -> 500
                    [] event.Type = "emotional" -> 1000
                    [] event.Type = "relationship" -> 1500
                    [] OTHER -> 0
    IN  IF "trust" \in DOMAIN event.Emotions
        THEN (impact * (Scale + event.Emotions["trust"])) \div Scale ELSE impact

\* calculateIntimacyImpact
calculateIntimacyImpact(event) ==
    LET impact == CASE event.Type = "personal" -> 1000
                    [] event.Type = "emotional" -> 1500
                    [] event.Type = "relationship" -> 2000
                    [] OTHER -> 0
    IN  IF "intimacy" \in DOMAIN event.Emotions
        THEN (impact * (Scale + event.Emotions["intimacy"])) \div Scale ELSE impact

\* a clamp that lost its upper bound
ClampUnit_NoCap(x) == Max(0, x)

\* math.Min(1.0, math.Max(0.0, x))
ClampUnit(x) == Min(Scale, Max(0, x))

\* the relationship `rel` after `event`, stored under `id` when id > 0
applyImpacts(rel, event, id) ==
    [ Trust |-> ClampUnit(rel.Trust + calculateTrustImpact(event)),
      Intimacy |-> ClampUnit(rel.Intimacy + calculateIntimacyImpact(event)),
      Events |-> IF id > 0 THEN Append(rel.Events, id) ELSE rel.Events,
      LastInteraction |-> event.Timestamp ]

\* TimelineMemory.updateRelationships: every participant's relationship,
\* created with zero trust and intimacy when absent
updateEventRelationships(rels, event, id) ==
    LET fresh == [Trust |-> 0, Intimacy |-> 0, Events |-> << >>, LastInteraction |-> ZeroTime]
    IN  [u \in DOMAIN rels \cup event.Participants |->
            IF u \in event.Participants
            THEN applyImpacts(IF u \in DOMAIN rels THEN rels[u] ELSE fresh, event, id)
            ELSE rels[u]]

\* a marker derivation that asks for an importance above the threshold
createMarkerFromEvent_Strict(event) ==
    IF event.Importance <= 8000 THEN << >>
    ELSE << [Timestamp |-> event.Timestamp, Importance |-> event.Importance] >>

\* createMarkerFromEvent: the marker derived from the event, in a sequence
\* that is empty for nil.  The marker's ID is a fresh uuid, so the marker
\* never replaces one the map holds.
createMarkerFromEvent(event) ==
    IF event.Importance < 8000 THEN << >>
    ELSE << [Timestamp |-> event.Timestamp, Importance |-> event.Importance] >>

\* StoreEvent(event): the ID, generated when the event has none (ID 0 is the
\* empty string), the importance when unset, tm.events[event.ID] = event, the
\* marker of a significant event (createMarkerFromEvent), the relationships
StoreEvent(event) ==
    LET id == IF event.ID = 0 THEN Len(events) + 1 ELSE event.ID
        stored == [event EXCEPT !.ID = id,
                                !.Importance = IF @ = 0 THEN CalculateImportance(event) ELSE @]
    IN  /\ storeCalls < MaxEvents
        /\ storeCalls' = storeCalls + 1
        /\ events' = (id :> stored) @@ events
        /\ markers' = markers \o createMarkerFromEvent(stored)
        /\ relationships' = updateEventRelationships(relationships, stored, id)
        /\ result' = [op |-> "StoreEvent", arg |-> id, err |-> FALSE]
        /\ UNCHANGED <<relationshipUpdates, recalled>>

\* UpdateRelationship(userID, interaction) with updateRelationshipMetrics;
\* isSignificantInteraction is false in every case
UpdateRelationship(userID) ==
    LET rel == IF userID \in DOMAIN relationships THEN relationships[userID]
               ELSE [Trust |-> 5000, Intimacy |-> 1000, Events |-> << >>,
                     LastInteraction |-> ZeroTime]
        event == [Type |-> "relationship", Timestamp |-> now, Emotions |-> << >>]
    IN  /\ relationshipUpdates < MaxRelationshipUpdates
        /\ relationships' = (userID :> applyImpacts(rel, event, 0)) @@ relationships
        /\ relationshipUpdates' = relationshipUpdates + 1
        /\ result' = [op |-> "UpdateRelationship", arg |-> userID, err |-> FALSE]
        /\ UNCHANGED <<events, markers, recalled, storeCalls>>

\* calculateEmotionalResonance
calculateEmotionalResonance(event, context) ==
    (IF context.Mood # "" /\ context.Mood \in DOMAIN event.Emotions
     THEN event.Emotions[context.Mood] ELSE 0)
    + 2000 * Cardinality(context.Topics \cap event.Tags)

\* FindRelevantMemories: the context mapper and the pattern matcher have no
\* weights and no patterns, so the combined score is 0.3 times the resonance
\* MatchEmotions kept
FindRelevantMemories(context) ==
    { id \in DOMAIN events :
        LET resonance == calculateEmotionalResonance(events[id], context)
            emotionScore == IF resonance > 5000 THEN resonance ELSE 0
        IN  (emotionScore * 3) \div 10 > 5000 }

\* relevance of a memory for a context: whether they share a topic
calculateRelevance(event, context) ==
    IF context.Topics \cap event.Tags # {} THEN Scale ELSE 0

\* scoreMemories: the score of one candidate
scoreMemories(id, context) ==
    LET recency == ExpNeg(((now - events[id].Timestamp) * 10) \div 432)
    IN  ((calculateRelevance(events[id], context) * 4) \div 10) + ((recency * 3) \div 10)
        + ((calculateEmotionalResonance(events[id], context) * 3) \div 10)
        + ((events[id].Importance * 2) \div 10)

\* getTopMemories: the sequences it can return, the `limit` best candidates by
\* descending score; candidates of equal score come in any order
getTopMemories(candidates, context, limit) ==
    LET n == Min(limit, Cardinality(candidates))
        score(id) == scoreMemories(id, context)
    IN  { s \in [1..n -> candidates] :
            /\ \A i, j \in 1..n : i < j => (s[i] # s[j] /\ score(s[i]) >= score(s[j]))
            /\ \A c \in candidates :
                  (\A i \in 1..n : s[i] # c) => \A i \in 1..n : score(c) <= score(s[i]) }

\* RecallMemories(context, limit)
RecallMemories(context, limit) ==
    /\ \E s \in getTopMemories(FindRelevantMemories(context), context, limit) :
          recalled' = s
    /\ result' = [op |-> "RecallMemories", arg |-> [context |-> context, limit |-> limit],
                  err |-> FALSE]
    /\ UNCHANGED <<events, markers, relationships, relationshipUpdates, storeCalls>>

\* the events StoreEvent is called with at time t; an event with ID 1
\* presents the ID of the first stored event
EventInputs(t) ==
    { [ID |-> 0, Type |-> "personal", Timestamp |-> ts, Importance |-> 5000, Emotions |-> << >>,
       Tags |-> {}, Participants |-> {"u1"}] : ts \in {0, t} }
    \cup
    { [ID |-> 0, Type |-> "emotional", Timestamp |-> t, Importance |-> 5000,
       Emotions |-> [joy |-> 20000], Tags |-> {"gaming"}, Participants |-> {"u1"}],
      [ID |-> 0, Type |-> "relationship", Timestamp |-> t, Importance |-> 0,
       Emotions |-> [trust |-> 100000, intimacy |-> 100000], Tags |-> {},
       Participants |-> {"u1", "u2"}],
      [ID |-> 1, Type |-> "achievement", Timestamp |-> t, Importance |-> 9000,
       Emotions |-> << >>, Tags |-> {}, Participants |-> {}],
      [ID |-> 0, Type |-> "achievement", Timestamp |-> t, Importance |-> 8000,
       Emotions |-> << >>, Tags |-> {}, Participants |-> {}],
      [ID |-> 0, Type |-> "emotional", Timestamp |-> 0, Importance |-> 0,
       Emotions |-> [trust |-> -30000, intimacy |-> -30000], Tags |-> {},
       Participants |-> {"u2"}] }

\* the contexts RecallMemories is called with
RecallContexts ==
    { [Mood |-> "", Topics |-> {}], [Mood |-> "joy", Topics |-> {"gaming"}],
      [Mood |-> "calm", Topics |-> {"art"}] }

TimelineInitState ==
    /\ events = << >>
    /\ markers = << >>
    /\ relationships = << >>
    /\ relationshipUpdates = 0
    /\ recalled = << >>
    /\ storeCalls = 0

----------------------------------------------------------------------------
(* Chat handler: the topic flow of ChatHandler in chat.go, with           *)
(* classifier.go and context.go.  A prompt is the set of the phrases the   *)
(* classifier looks for that it contains; the prompts are those that reach *)
(* the topic flow, and the database answers every query.                   *)

\* the prompts the handler is called with
Prompts == { {}, {"yes"}, {"solve"}, {"feel"}, {"yes", "feel"}, {"sure", "name"} }

\* ClassifyPrompt: the first case of the switch whose phrase the prompt contains
ClassifyPrompt(prompt) ==
    IF prompt \cap {"solve", "x =", "graph"} # {} THEN "math"
    ELSE IF prompt \cap {"name", "who are you"} # {} THEN "identity"
    ELSE IF prompt \cap {"feel", "emotion"} # {} THEN "emotion"
    ELSE IF prompt \cap {"dream", "exist", "soul"} # {} THEN "philosophy"
    ELSE "uncategorized"

\* IsConfirmation
IsConfirmation(prompt) == prompt \cap {"yes", "sure", "okay", "go ahead"} # {}

\* GetCurrentTopic: the row of the session, "uncategorized" when there is none
GetCurrentTopic(context, sessionID) ==
    IF sessionID \in DOMAIN context THEN context[sessionID] ELSE "uncategorized"

\* SetCurrentTopic: INSERT ... ON CONFLICT (session_id) DO UPDATE
SetCurrentTopic(context, sessionID, topic) == (sessionID :> topic) @@ context

\* ChatHandler, from the classification on: the first topic of a session is
\* adopted, a different topic is adopted on a confirmation and suggested
\* otherwise, and the model is called unless a suggestion was sent.  modelOk
\* tells whether the personality, the history and the model were obtained.
ChatHandler(sessionID, prompt, modelOk) ==
    LET newTopic == ClassifyPrompt(prompt)
        stored == GetCurrentTopic(sessionContext, sessionID)
        adopts == stored = "uncategorized" /\ newTopic # "uncategorized"
        context1 == IF adopts THEN SetCurrentTopic(sessionContext, sessionID, newTopic)
                    ELSE sessionContext
        currentTopic == IF adopts THEN newTopic ELSE stored
        confirmed == newTopic # currentTopic /\ IsConfirmation(prompt)
        suggests == newTopic # currentTopic /\ ~IsConfirmation(prompt)
        context2 == IF confirmed THEN SetCurrentTopic(context1, sessionID, newTopic)
                    ELSE context1
        reply == IF suggests THEN "suggestion" ELSE IF modelOk THEN "model" ELSE "error"
    IN  /\ Len(chatLog) < MaxChatTurns
        /\ sessionContext' = context2
        /\ chatLog' = Append(chatLog,
                             [ prompt |-> prompt, reply |-> reply,
                               from |-> currentTopic, to |-> newTopic,
                               before |-> stored,
                               modelCalled |-> ~suggests,
                               after |-> GetCurrentTopic(context2, sessionID) ])
        /\ result' = [op |-> "ChatHandler", arg |-> <<sessionID, prompt>>, err |-> reply = "error"]

ChatInitState ==
    /\ sessionContext = << >>
    /\ chatLog = << >>

----------------------------------------------------------------------------
(* Timed cache: TimedCache of enhanced_persistence.go, as newAdvancedCache *)
(* builds it.  Times are in minutes.                                       *)

\* newAdvancedCache: maxAge: 1 * time.Hour
TimedCacheMaxAge == 60

\* TimedCache.Set(key, value, duration)
TimedCacheSet(key, value, duration) ==
    /\ tcData' = (key :> value) @@ tcData
    /\ tcExpiry' = (key :> (now + duration)) @@ tcExpiry
    /\ result' = [op |-> "TimedCache.Set", arg |-> [key |-> key, value |-> value], err |-> FALSE]

\* TimedCache.Get(key): the value and true while time.Since(expiry) < maxAge,
\* otherwise the entry is deleted and the call returns nil and false
TimedCacheGet(key) ==
    IF key \in DOMAIN tcData /\ now - tcExpiry[key] < TimedCacheMaxAge
    THEN /\ result' = [op |-> "TimedCache.Get",
                       arg |-> [key |-> key, value |-> tcData[key], found |-> TRUE],
                       err |-> FALSE]
         /\ UNCHANGED cacheVars
    ELSE /\ tcData' = [k \in DOMAIN tcData \ {key} |-> tcData[k]]
         /\ tcExpiry' = [k \in DOMAIN tcExpiry \ {key} |-> tcExpiry[k]]
         /\ result' = [op |-> "TimedCache.Get",
                       arg |-> [key |-> key, value |-> "<nil>", found |-> FALSE],
                       err |-> FALSE]

CacheInitState ==
    /\ tcData = << >>
    /\ tcExpiry = << >>

----------------------------------------------------------------------------
(* The clock *)

Tick(d, horizon) ==
    /\ now + d <= horizon
    /\ now' = now + d
    /\ result' = [op |-> "Tick", arg |-> d, err |-> FALSE]

InitCommon ==
    /\ now = 0
    /\ result = [op |-> "init", arg |-> 0, err |-> FALSE]

----------------------------------------------------------------------------
(* Specifications, one per component *)

Init ==
    /\ InitCommon
    /\ MoodInitState
    /\ PersonaInitState
    /\ NormInitState
    /\ TopicInitState
    /\ SessionInitState
    /\ TimelineInitState
    /\ ChatInitState
    /\ CacheInitState

\* the mood engine
MoodUpdateStep ==
    /\ \E context \in MoodContexts : UpdateMood(context)
    /\ UNCHANGED <<now, personaVars, normVars, topicVars, sessionVars, timelineVars,
                   chatVars, cacheVars>>

MoodTick ==
    /\ \E d \in {300} : Tick(d, MaxMoodTime)
    /\ UNCHANGED <<moodVars, personaVars, normVars, topicVars, sessionVars, timelineVars,
                   chatVars, cacheVars>>

MoodNext == MoodUpdateStep \/ MoodTick

MoodSpec == Init /\ [][MoodNext]_vars

\* the persona system
PersonaSwitchStep ==
    /\ \E t \in TargetIDs, r \in Reasons : SwitchPersona(t, r)
    /\ UNCHANGED <<now, moodVars, normVars, topicVars, sessionVars, timelineVars,
                   chatVars, cacheVars>>

PersonaTick ==
    /\ \E d \in {1, 4} : Tick(d, MaxPersonaTime)
    /\ UNCHANGED <<moodVars, personaVars, normVars, topicVars, sessionVars, timelineVars,
                   chatVars, cacheVars>>

PersonaNext == PersonaSwitchStep \/ PersonaTick

PersonaSpec == Init /\ [][PersonaNext]_vars

\* the normalization layer: the arguments are drawn in the initial state
NormInit ==
    /\ InitCommon
    /\ MoodInitState
    /\ PersonaInitState
    /\ TopicInitState
    /\ SessionInitState
    /\ TimelineInitState
    /\ ChatInitState
    /\ CacheInitState
    /\ normIn \in [scores : RawScores, context : ContextAnalyses]
    /\ normOut = << >>

NormalizeStep ==
    /\ Normalize
    /\ UNCHANGED <<now, moodVars, personaVars, topicVars, sessionVars, timelineVars,
                   chatVars, cacheVars>>

NormalizeReturnedStep ==
    /\ NormalizeReturned
    /\ UNCHANGED <<now, moodVars, personaVars, topicVars, sessionVars, timelineVars,
                   chatVars, cacheVars>>

NormNext == NormalizeStep \/ NormalizeReturnedStep

NormSpec == NormInit /\ [][NormNext]_vars

\* one topic thread, driven operation by operation
ThreadCreateStep ==
    /\ ActiveThreads = << >>
    /\ \E topic \in Topics : createNewThread(topic)
    /\ UNCHANGED <<now, moodVars, personaVars, normVars, sessionVars, timelineVars,
                   chatVars, cacheVars>>

ThreadUpdateStep ==
    /\ topicOps < MaxTopicOps
    /\ \E id \in DOMAIN ActiveThreads, topic \in Topics : updateThread(id, topic)
    /\ topicOps' = topicOps + 1
    /\ UNCHANGED <<now, moodVars, personaVars, normVars, sessionVars, timelineVars,
                   chatVars, cacheVars>>

GraphUpdateStep ==
    /\ topicOps < MaxTopicOps
    /\ \E from \in {"tech", "gaming"}, strength \in {3000, 9000} :
          UpdateRelationshipGraph(from, "gaming", strength)
    /\ topicOps' = topicOps + 1
    /\ UNCHANGED <<now, moodVars, personaVars, normVars, sessionVars, timelineVars,
                   chatVars, cacheVars>>

ThreadNext == ThreadCreateStep \/ ThreadUpdateStep \/ GraphUpdateStep

ThreadSpec == Init /\ [][ThreadNext]_vars

\* the topic threader, driven input by input
InputStep ==
    /\ \E input \in Inputs : ProcessInput(input)
    /\ UNCHANGED <<now, moodVars, personaVars, normVars, sessionVars, timelineVars,
                   chatVars, cacheVars>>

InputTick ==
    /\ \E d \in {5, 31} : Tick(d, MaxInputTime)
    /\ UNCHANGED <<moodVars, personaVars, normVars, sessionVars, timelineVars, chatVars,
                   cacheVars, topicVars>>

InputNext == InputStep \/ InputTick

InputSpec == Init /\ [][InputNext]_vars

\* the topic persistence, over a store that can fail
PersistSaveStep ==
    /\ \E id \in {"t1", "t2"}, domain \in {"tech", "gaming"}, dbOk \in BOOLEAN :
          SaveTopic([ID |-> id, Domain |-> domain, LastSeen |-> now, Frequency |-> 1], dbOk)
    /\ UNCHANGED <<now, moodVars, personaVars, normVars, sessionVars, timelineVars,
                   chatVars, cacheVars>>

PersistLoadStep ==
    /\ \E id \in {"t1", "t2"}, dbOk \in BOOLEAN : LoadTopic(id, dbOk)
    /\ UNCHANGED <<now, moodVars, personaVars, normVars, sessionVars, timelineVars,
                   chatVars, cacheVars>>

PersistTick ==
    /\ \E d \in {720} : Tick(d, MaxPersistTime)
    /\ UNCHANGED <<moodVars, personaVars, normVars, sessionVars, timelineVars, chatVars,
                   cacheVars, topicVars>>

PersistNext == PersistSaveStep \/ PersistLoadStep \/ PersistTick

PersistSpec == Init /\ [][PersistNext]_vars

\* the session flow coordinator, with the persona system its caller can switch
SessionStartStep ==
    /\ \E u \in Users, c \in InitialContexts : StartSession(u, c)
    /\ UNCHANGED <<now, normVars, timelineVars, chatVars, cacheVars>>

SessionInteractionStep ==
    /\ ProcessInteraction
    /\ UNCHANGED <<now, normVars, timelineVars, chatVars, cacheVars>>

SessionSwitchStep ==
    /\ \E t \in PersonaIDs : SwitchPersona(t, "session")
    /\ UNCHANGED <<now, moodVars, normVars, topicVars, sessionVars, timelineVars,
                   chatVars, cacheVars>>

SessionTick ==
    /\ \E d \in {5} : Tick(d, MaxSessionTime)
    /\ UNCHANGED <<moodVars, personaVars, normVars, topicVars, sessionVars, timelineVars,
                   chatVars, cacheVars>>

SessionAbortStep ==
    /\ abortInteraction
    /\ UNCHANGED <<now, normVars, timelineVars, chatVars, cacheVars>>

SessionNext ==
    SessionStartStep \/ SessionInteractionStep \/ SessionAbortStep \/ SessionSwitchStep \/ SessionTick

SessionSpec == Init /\ [][SessionNext]_vars

\* the session flow coordinator with its checkpoint method
SessionCheckpointStep ==
    /\ createCheckpoint
    /\ UNCHANGED <<now, normVars, timelineVars, chatVars, cacheVars>>

CheckpointNext ==
    \/ SessionStartStep
    \/ SessionInteractionStep
    \/ SessionCheckpointStep
    \/ SessionTick

CheckpointSpec == Init /\ [][CheckpointNext]_vars

\* the persona system with its context and its response style
PersonaContextStep ==
    /\ \E mood \in {"", "romantic", "focused"}, restrictions \in {{}, {"sapphic_only"}} :
          UpdateContext([CurrentMood |-> mood, Restrictions |-> restrictions])
    /\ UNCHANGED <<now, moodVars, normVars, topicVars, sessionVars, timelineVars,
                   chatVars, cacheVars>>

PersonaStyleStep ==
    /\ \E mood \in {"romantic", "focused"} :
          GetResponseStyle([CurrentMood |-> mood, Restrictions |-> {}])
    /\ UNCHANGED <<now, moodVars, normVars, topicVars, sessionVars, timelineVars,
                   chatVars, cacheVars>>

StyleSwitchStep ==
    /\ \E t \in PersonaIDs : SwitchPersona(t, "style")
    /\ UNCHANGED <<now, moodVars, normVars, topicVars, sessionVars, timelineVars,
                   chatVars, cacheVars>>

StyleNext == StyleSwitchStep \/ PersonaContextStep \/ PersonaStyleStep \/ SessionTick

StyleSpec == Init /\ [][StyleNext]_vars

\* the persona system shared by two sessions that switch at the same time
ConcurrentNext ==
    \/ /\ \E c \in Calls, t \in PersonaIDs : SwitchEnter(c, t, "session")
       /\ UNCHANGED <<now, moodVars, normVars, topicVars, sessionVars, timelineVars,
                      chatVars, cacheVars>>
    \/ /\ \E c \in Calls : SwitchStatement(c)
       /\ UNCHANGED <<now, moodVars, normVars, topicVars, sessionVars, timelineVars,
                      chatVars, cacheVars>>
    \/ /\ ConcurrentMapWrites
       /\ UNCHANGED <<now, moodVars, normVars, topicVars, sessionVars, timelineVars,
                      chatVars, cacheVars>>
    \/ SessionTick

ConcurrentSpec == Init /\ [][ConcurrentNext]_vars

\* the chat handler serving one session
ChatNext ==
    /\ \E prompt \in Prompts, modelOk \in BOOLEAN : ChatHandler("s1", prompt, modelOk)
    /\ UNCHANGED <<now, moodVars, personaVars, normVars, topicVars, sessionVars, timelineVars,
                   cacheVars>>

ChatSpec == Init /\ [][ChatNext]_vars

\* the timed cache
CacheNext ==
    \/ /\ \E key \in {"k1", "k2"}, value \in {"v1", "v2"}, duration \in {30, 60} :
             TimedCacheSet(key, value, duration)
       /\ UNCHANGED <<now, moodVars, personaVars, normVars, topicVars, sessionVars,
                      timelineVars, chatVars>>
    \/ /\ \E key \in {"k1", "k2"} : TimedCacheGet(key)
       /\ UNCHANGED <<now, moodVars, personaVars, normVars, topicVars, sessionVars,
                      timelineVars, chatVars>>
    \/ /\ \E d \in {30} : Tick(d, MaxCacheTime)
       /\ UNCHANGED <<moodVars, personaVars, normVars, topicVars, sessionVars, timelineVars,
                      chatVars, cacheVars>>

CacheSpec == Init /\ [][CacheNext]_vars

\* the timeline memory
otherThanTimeline ==
    <<moodVars, personaVars, normVars, topicVars, sessionVars, chatVars, cacheVars>>

TimelineStoreStep ==
    /\ \E event \in EventInputs(now) : StoreEvent(event)
    /\ UNCHANGED <<now, otherThanTimeline>>

TimelineRelationshipStep ==
    /\ \E userID \in Users : UpdateRelationship(userID)
    /\ UNCHANGED <<now, otherThanTimeline>>

TimelineRecallStep ==
    /\ \E context \in RecallContexts, limit \in {1, 2} : RecallMemories(context, limit)
    /\ UNCHANGED <<now, otherThanTimeline>>

TimelineTick ==
    /\ \E d \in {10080} : Tick(d, MaxTimelineTime)
    /\ UNCHANGED <<otherThanTimeline, timelineVars>>

TimelineNext ==
    TimelineStoreStep \/ TimelineRelationshipStep \/ TimelineRecallStep \/ TimelineTick

TimelineSpec == Init /\ [][TimelineNext]_vars

----------------------------------------------------------------------------
(* Properties of the mood engine *)

\* C1: after any sequence of UpdateMood calls, with any context map, the
\* current mood intensity lies in [0, max_intensity].
C1_IntensityClamped ==
    /\ CurrentState.Intensity >= 0
    /\ CurrentState.Intensity <= max_intensity

\* an update that drove the intensity down to the floor, after one that
\* drove it up to the cap
C1_Witness ==
    /\ updateCalls >= 2
    /\ CurrentState.Intensity = 0
    /\ History[Len(History)].Intensity = max_intensity

\* C2: the length of History equals the number of UpdateMood calls performed
\* so far, and History never shrinks.
C2_HistoryCountsUpdates ==
    /\ [](Len(History) = updateCalls)
    /\ [][Len(History') >= Len(History)]_vars

C2_Witness == updateCalls >= 2 /\ Len(History) >= 2

\* C7: an UpdateMood performed while AllowsFlirting is false never selects
\* "flirty", so the primary mood is never "flirty" in such a context.
C7_FlirtySuppressed ==
    ~getCurrentSapphicContext.AllowsFlirting => CurrentState.Primary # "flirty"

----------------------------------------------------------------------------
(* Properties of the persona system *)

ActivePersonas == {p \in DOMAIN personas : personas[p].Active}

\* C3: a SwitchPersona whose target was last activated less than 5 minutes
\* ago returns an error and leaves the active persona, the Active flags and
\* LastUsed stamps, the history and the cooldown table unchanged.
C3_CooldownSwitchRejected ==
    [][ (/\ result'.op = "SwitchPersona"
         /\ result'.arg \in PersonaIDs
         /\ personas[result'.arg].LastUsed # ZeroTime
         /\ now - personas[result'.arg].LastUsed < CooldownMinutes)
        => (result'.err /\ personaVars' = personaVars) ]_vars

\* a rejected switch to the persona that is active, after several switches
C3_Witness ==
    /\ result.op = "SwitchPersona"
    /\ result.err
    /\ result.arg = activePersona
    /\ Len(history) >= 2

\* C4: SwitchPersona with a target that is not in the catalog returns an
\* error and leaves the whole persona system as it was.
C4_UnknownPersonaRejected ==
    [][ (result'.op = "SwitchPersona" /\ result'.arg \notin PersonaIDs)
        => (result'.err /\ personaVars' = personaVars) ]_vars

\* a rejected switch to an unknown persona, after a successful switch
C4_Witness ==
    /\ result.op = "SwitchPersona"
    /\ result.err
    /\ result.arg \notin PersonaIDs
    /\ activePersona # NoPersona

\* C5: at most one persona is Active, and once a switch has succeeded
\* exactly one is, the one activePersona designates.
C5_OneActivePersona ==
    /\ Cardinality(ActivePersonas) <= 1
    /\ Len(history) > 0 => ActivePersonas = {activePersona}

\* the second persona became active after the first one had been
C5_Witness ==
    /\ Len(history) >= 2
    /\ history[1].ToPersona # history[2].ToPersona
    /\ activePersona = history[2].ToPersona

----------------------------------------------------------------------------
(* Properties of the normalization layer *)

\* C6: NormalizeScores called with a context whose AllowsFlirting flag is
\* false returns a score of exactly 0 for the mood "flirty".
C6_FlirtyZeroWhenNotAllowed ==
    (/\ result.op = "NormalizeScores"
     /\ ~normIn.context.SapphicContext.AllowsFlirting
     /\ "flirty" \in DOMAIN normOut)
    => normOut["flirty"] = 0

----------------------------------------------------------------------------
(* Properties of the topic threader *)

\* the relation a -> b is defined in a graph given as topic -> row
HasRelation(rows, a, b) == a \in DOMAIN rows /\ b \in DOMAIN rows[a]

Symmetric(rows) ==
    \A a \in Topics, b \in Topics :
        HasRelation(rows, a, b) =>
            (HasRelation(rows, b, a) /\ rows[a][b] = rows[b][a])

RelatedRows == [t \in DOMAIN TopicGraph |-> TopicGraph[t].Related]

\* C8: after any sequence of thread updates and UpdateRelationshipGraph
\* calls, the weight A holds for B is defined exactly when the weight B holds
\* for A is, and the two are equal.
C8_RelationsSymmetric == Symmetric(RelatedRows) /\ Symmetric(relationshipGraph)

\* the pair tech/gaming, whose two transition affinities differ, written by an
\* update with "gaming", and an edge between two topics in the other graph
C8_Witness ==
    /\ HasRelation(RelatedRows, "tech", "gaming")
    /\ RelatedRows["tech"]["gaming"] = 6000
    /\ HasRelation(relationshipGraph, "tech", "gaming")

\* C9: a thread never holds more than MaxThreadDepth active topics, and when
\* a new topic is added to a full thread the first entry is the one removed
\* and the order of the others is kept.
C9_DepthBoundedOldestEvicted ==
    /\ [](\A id \in DOMAIN ActiveThreads :
            Len(ActiveThreads[id].ActiveNodes) <= MaxThreadDepth)
    /\ [][ result'.op = "updateThread" =>
            LET id == result'.arg[1]
                topic == result'.arg[2]
                old == ActiveThreads[id].ActiveNodes
            IN  (Len(old) = MaxThreadDepth /\ ~contains(old, topic)) =>
                    ActiveThreads'[id].ActiveNodes = Append(Tail(old), topic) ]_vars

\* a sixth distinct topic has been added and the main topic, the oldest
\* entry, is gone
C9_Witness ==
    /\ result.op = "updateThread"
    /\ \E id \in DOMAIN ActiveThreads :
          /\ Len(ActiveThreads[id].ActiveNodes) = MaxThreadDepth
          /\ ActiveThreads[id].ActiveNodes[MaxThreadDepth] = result.arg[2]
          /\ ~contains(ActiveThreads[id].ActiveNodes, ActiveThreads[id].MainTopic)

----------------------------------------------------------------------------
(* Properties of the session flow coordinator *)

\* C10: ProcessInteraction on a manager that has no active session returns
\* an error and changes no session, mood, persona, topic or timeline state.
C10_NoSessionRejected ==
    [][ (result'.op = "ProcessInteraction" /\ activeSession = NoSession)
        => (/\ result'.err
            /\ sessionVars' = sessionVars
            /\ moodVars' = moodVars
            /\ personaVars' = personaVars
            /\ topicVars' = topicVars) ]_vars

\* a rejected interaction, with the persona system already switched
C10_Witness ==
    /\ result.op = "ProcessInteraction"
    /\ result.err
    /\ activeSession = NoSession
    /\ activePersona # NoPersona

\* the session StartSession returned last to a user
recentSessionOf(userID) ==
    LET ids == {id \in DOMAIN returnedSessions : returnedSessions[id].UserID = userID}
    IN  returnedSessions[CHOOSE id \in ids : \A other \in ids : other <= id]

\* C11: a StartSession for a user for whom this manager started a session
\* earlier reuses the user's most recent session: the state of the session it
\* returns is the prior SessionState merged with the new context.
C11_RecentSessionReused ==
    [][ (/\ result'.op = "StartSession"
         /\ \E id \in DOMAIN returnedSessions :
               returnedSessions[id].UserID = result'.arg[1])
        => activeSession'.CurrentState =
              MergeState(recentSessionOf(result'.arg[1]).CurrentState, result'.arg[2]) ]_vars

ScoreSum(scores) == SumOver(scores, DOMAIN scores)

\* C14: NormalizeScores applied to a vector it returned, under the same
\* context, returns that same vector.
C14_NormalizeIdempotent ==
    [][ (result'.op = "NormalizeScores" /\ result'.arg = "returned")
        => normOut' = normOut ]_vars

\* a NormalizeScores call on non-negative raw scores, with previous scores
\* in [0,1]
NonNegativeCall ==
    /\ result.op = "NormalizeScores"
    /\ \A m \in DOMAIN normIn.scores : normIn.scores[m] >= 0
    /\ \A m \in DOMAIN normIn.context.PreviousScores :
          /\ normIn.context.PreviousScores[m] >= 0
          /\ normIn.context.PreviousScores[m] <= Scale

\* the scores of the last call before normalizeSum
SmoothedScores ==
    smoothTransitions(applyThresholds(normIn.scores, normIn.context), normIn.context)

\* the returned scores are the smoothed ones, divided by their sum when it
\* exceeds 1.0
ScaledByOneFactor ==
    /\ ScoreSum(SmoothedScores) <= Scale => normOut = SmoothedScores
    /\ ScoreSum(SmoothedScores) > Scale =>
          \A m \in DOMAIN normOut :
              normOut[m] = Quotient(SmoothedScores[m], ScoreSum(SmoothedScores))

----------------------------------------------------------------------------
(* Properties of the mood engine: degraded input and the playful scenario *)

\* C16: an UpdateMood with empty content (no text, no signals), performed
\* while the current mood is neutral, succeeds and leaves the primary mood
\* "neutral".
C16_EmptyContentStaysNeutral ==
    [][ (/\ result'.op = "UpdateMood"
         /\ result'.arg.text = {}
         /\ ~result'.arg.signals
         /\ CurrentState.Primary = "neutral")
        => (~result'.err /\ CurrentState'.Primary = "neutral") ]_vars

\* C17: on a newly created mood engine, one UpdateMood with the text
\* "haha that's so fun lol" makes the primary mood "playful" and leaves an
\* intensity strictly greater than the decayed pre-update intensity.
C17_PlayfulScenario ==
    [][ (/\ result'.op = "UpdateMood"
         /\ result'.arg.text = {"haha", "that's", "so", "fun", "lol"}
         /\ ~result'.arg.signals
         /\ updateCalls = 0
         /\ CurrentState = NewMoodEngine)
        => (/\ CurrentState'.Primary = "playful"
            /\ CurrentState'.Intensity > NewIntensity(<< >>, CurrentState, now)) ]_vars

----------------------------------------------------------------------------
(* Properties of the timeline memory *)

\* C18: RecallMemories over two stored events of equal importance and
\* different timestamps, with a context whose topics and mood match neither
\* and a limit of at least 2, returns both events, the more recent one first.
C18_RecentFirst ==
    [][ (/\ result'.op = "RecallMemories"
         /\ result'.arg.limit >= 2
         /\ Len(events) = 2
         /\ events[1].Importance = events[2].Importance
         /\ events[1].Timestamp # events[2].Timestamp
         /\ \A id \in 1..2 :
               /\ calculateEmotionalResonance(events[id], result'.arg.context) = 0
               /\ calculateRelevance(events[id], result'.arg.context) = 0)
        => recalled' = IF events[1].Timestamp > events[2].Timestamp
                       THEN <<1, 2>> ELSE <<2, 1>> ]_vars

\* C20: after any sequence of StoreEvent and UpdateRelationship calls, the
\* Trust and the Intimacy of every user's relationship lie in [0,1].
C20_TrustIntimacyBounded ==
    \A u \in DOMAIN relationships :
        /\ relationships[u].Trust >= 0
        /\ relationships[u].Trust <= Scale
        /\ relationships[u].Intimacy >= 0
        /\ relationships[u].Intimacy <= Scale

\* a relationship driven to the cap by a stored event, in a history that
\* holds two events and an UpdateRelationship call
C20_Witness ==
    /\ relationshipUpdates >= 1
    /\ Len(events) >= 2
    /\ \E u \in DOMAIN relationships :
          /\ relationships[u].Trust = Scale
          /\ relationships[u].Intimacy = Scale
          /\ Len(relationships[u].Events) >= 1

----------------------------------------------------------------------------
(* Properties of the topic threader: pruning *)

\* C19: after every ProcessInput no thread whose last activity is more than
\* 30 minutes old is in the active set, and every thread the call removed is
\* held by the archive.
C19_PrunedThreadsArchived ==
    [][ result'.op = "ProcessInput" =>
          /\ \A id \in DOMAIN ActiveThreads' : now' - ActiveThreads'[id].LastActive <= 30
          /\ \A id \in DOMAIN ActiveThreads \ DOMAIN ActiveThreads' :
                \E archived \in archivedThreads' :
                    /\ archived.MainTopic = ActiveThreads[id].MainTopic
                    /\ archived.ActiveNodes = ActiveThreads[id].ActiveNodes ]_vars

----------------------------------------------------------------------------
(* Properties of the timeline memory: relationships and stored events *)

\* C21: no StoreEvent or UpdateRelationship call lowers the Trust or the
\* Intimacy of any user's relationship, and the relationship's event-id list
\* only grows by appending.
C21_RelationshipsOnlyStrengthen ==
    [][ result'.op \in {"StoreEvent", "UpdateRelationship"} =>
          \A u \in DOMAIN relationships :
              /\ u \in DOMAIN relationships'
              /\ relationships'[u].Trust >= relationships[u].Trust
              /\ relationships'[u].Intimacy >= relationships[u].Intimacy
              /\ Len(relationships'[u].Events) >= Len(relationships[u].Events)
              /\ SubSeq(relationships'[u].Events, 1, Len(relationships[u].Events))
                    = relationships[u].Events ]_vars

----------------------------------------------------------------------------
(* Properties of the session checkpoints *)

C23_StoredEventImmutable ==
    [][ \A id \in DOMAIN events :
          /\ id \in DOMAIN events'
          /\ events'[id].ID = events[id].ID
          /\ events'[id].Type = events[id].Type
          /\ events'[id].Timestamp = events[id].Timestamp
          /\ events'[id].Importance = events[id].Importance ]_vars

----------------------------------------------------------------------------
(* Properties of the topic persistence *)

\* C24: when the store fails during LoadTopic of a topic whose copy is in the
\* cache, fresh or stale, LoadTopic returns the cached copy and no error.
C24_CachedCopyOnFailure ==
    [][ (/\ result'.op = "LoadTopic"
         /\ ~result'.arg.dbOk
         /\ result'.arg.id \in DOMAIN cache)
        => (/\ ~result'.err
            /\ result'.arg.data = cache[result'.arg.id].Data) ]_vars

----------------------------------------------------------------------------
(* Properties of the persona system: response style, transitions, events *)

C27_SwitchEffects ==
    [][ result'.op = "SwitchPersona" =>
          LET target == result'.arg
              previous == IF activePersona = NoPersona THEN "" ELSE activePersona
          IN  /\ (/\ target \in DOMAIN personas
                  /\ (personas[target].LastUsed = ZeroTime
                        \/ now - personas[target].LastUsed >= 5))
                 => ~result'.err
              /\ ~result'.err =>
                    /\ activePersona' = target
                    /\ personas'[target].Active
                    /\ (previous \notin {"", target} => ~personas'[previous].Active)
                    /\ target \in DOMAIN cooldowns'
                    /\ cooldowns'[target] = now
                    /\ Len(history') = Len(history) + 1
                    /\ SubSeq(history', 1, Len(history)) = history
                    /\ history'[Len(history')].FromPersona = previous
                    /\ history'[Len(history')].ToPersona = target
              /\ result'.err => history' = history ]_vars

\* a persona re-activated after its cooldown ran out, replacing another
\* active persona
C27_Witness ==
    /\ result.op = "SwitchPersona"
    /\ ~result.err
    /\ Len(history) = 3
    /\ history[3].ToPersona = history[1].ToPersona
    /\ history[3].FromPersona = history[2].ToPersona
    /\ history[3].FromPersona # history[3].ToPersona
    /\ cooldowns[history[3].ToPersona] = now

\* C28: no UpdateContext or SwitchPersona changes a field of an event already
\* in the persona history, the context the event recorded included.
C28_PersonaEventImmutable ==
    [][ result'.op \in {"UpdateContext", "SwitchPersona"} =>
          \A i \in 1..Len(history) :
              LET contextOf(event, installed) ==
                      IF event.Context = "&ps.context" THEN installed
                      ELSE [CurrentMood |-> "", Restrictions |-> {}]
              IN  /\ i <= Len(history')
                  /\ history'[i] = history[i]
                  /\ contextOf(history'[i], psContext') = contextOf(history[i], psContext) ]_vars

\* C29: the rule GetResponseStyle(context) returns has a condition that holds
\* in the passed context and no constraint in the passed context's
\* restrictions, whatever context UpdateContext installed.
C29_FiltersOnPassedContext ==
    [][ result'.op = "GetResponseStyle" =>
          LET passed == result'.arg.context
              rule == result'.arg.rule
              holds == CASE rule.Condition = "feminine_presence" ->
                                passed.CurrentMood \in {"flirty", "romantic"}
                         [] rule.Condition = "romantic_context" ->
                                passed.CurrentMood = "romantic"
                         [] rule.Condition = "technical_discussion" ->
                                passed.CurrentMood \in {"focused", "analytical"}
                         [] OTHER -> FALSE
          IN  rule.Condition # "" =>
                  (holds /\ rule.Constraints \cap passed.Restrictions = {}) ]_vars

----------------------------------------------------------------------------
(* Properties of the mood engine: the history and the selection *)

\* C26: immediately after each UpdateMood the last element of History is the
\* CurrentState as it was just before the update, and the earlier elements
\* are the History as it was, in the same order.
C26_HistoryAuditTrail ==
    [][ result'.op = "UpdateMood" =>
          /\ Len(History') = Len(History) + 1
          /\ History'[Len(History')] = CurrentState
          /\ SubSeq(History', 1, Len(History)) = History ]_vars

\* a second update: the history holds the initial state and then the state
\* the first update produced, which differs from it
C26_Witness ==
    /\ result.op = "UpdateMood"
    /\ Len(History) = 2
    /\ History[1] = NewMoodEngine
    /\ History[2] # History[1]
    /\ History[2] # CurrentState

\* C30: in UpdateMood, when the highest mood score is below mood_shift the
\* primary mood stays the previous one if the previous intensity exceeds
\* mood_shift and becomes "neutral" otherwise; when the highest score is at
\* least mood_shift the primary mood is a highest-scoring mood.
C30_ShiftThreshold ==
    [][ result'.op = "UpdateMood" =>
          IF result'.top.highest < mood_shift
          THEN CurrentState'.Primary = IF CurrentState.Intensity > mood_shift
                                       THEN CurrentState.Primary ELSE "neutral"
          ELSE CurrentState'.Primary \in result'.top.moods ]_vars

\* an update whose highest score is below the threshold kept the previous,
\* non-neutral mood, the previous intensity being above the threshold
C30_Witness ==
    /\ result.op = "UpdateMood"
    /\ result.top.highest < mood_shift
    /\ Len(History) = 2
    /\ History[2].Intensity > mood_shift
    /\ History[2].Primary # "neutral"
    /\ CurrentState.Primary = History[2].Primary

----------------------------------------------------------------------------
(* Properties of the topic threader: ProcessInput and the threads it keeps *)

C35_OneTopicPerThread ==
    \A id \in DOMAIN ActiveThreads :
        ActiveThreads[id].ActiveNodes = <<ActiveThreads[id].MainTopic>>

\* two threads stand side by side after a call that detected a domain which
\* already had a graph node and a thread of another domain was active
C35_Witness ==
    /\ result.op = "ProcessInput"
    /\ Cardinality(DOMAIN ActiveThreads) >= 2
    /\ TopicGraph # << >>
    /\ inputsProcessed = 3

\* C36: at most one active thread has a given main topic: a domain that has an
\* active thread, detected again after any lapse of time, updates that thread.
C36_OneThreadPerTopic ==
    \A a, b \in DOMAIN ActiveThreads :
        ActiveThreads[a].MainTopic = ActiveThreads[b].MainTopic => a = b

\* C37: after any sequence of updateThread calls a thread's MainTopic is still
\* one of the entries of its ActiveNodes.
C37_MainTopicStaysActive ==
    \A id \in DOMAIN ActiveThreads :
        contains(ActiveThreads[id].ActiveNodes, ActiveThreads[id].MainTopic)

----------------------------------------------------------------------------
(* Properties of the score normalizer, continued *)

\* C32: for every mood of the vector NormalizeScores returns, the returned
\* score differs from the mood's previous normalized score by at most 0.3,
\* or at most 0.5 when the context is flagged emotional.
C32_ChangeCapped ==
    result.op = "NormalizeScores" =>
        LET previous(mood) == IF mood \in DOMAIN normIn.context.PreviousScores
                              THEN normIn.context.PreviousScores[mood] ELSE 0
            maxChange == IF normIn.context.IsEmotional THEN 5000 ELSE 3000
        IN  \A mood \in DOMAIN normOut :
                Abs(normOut[mood] - previous(mood)) <= maxChange

----------------------------------------------------------------------------
(* Properties of the timeline memory, continued *)

----------------------------------------------------------------------------
(* Properties of the persona system under concurrent callers *)

\* C34: when two SwitchPersona calls interleave at statement level, after both
\* have completed exactly one persona is Active, it is the persona that
\* activePersona designates, and no persona has been activated twice within
\* its cooldown of 5 minutes.
C34_ConsistentUnderConcurrency ==
    ( /\ \A c \in Calls : switchCalls[c].pc = "done"
      /\ \E c \in Calls : ~switchCalls[c].err ) =>
        /\ Cardinality({id \in DOMAIN personas : personas[id].Active}) = 1
        /\ activePersona \in DOMAIN personas
        /\ personas[activePersona].Active
        /\ \A c, d \in Calls :
              ( /\ c # d
                /\ ~switchCalls[c].err
                /\ ~switchCalls[d].err
                /\ switchCalls[c].target = switchCalls[d].target ) =>
                  Abs(switchCalls[c].activatedAt - switchCalls[d].activatedAt) >= CooldownMinutes

----------------------------------------------------------------------------
(* Properties of the chat handler's topic flow *)

\* C38: when a prompt classifies to a topic B different from the session's
\* current topic A (A not "uncategorized") and is not a confirmation, the
\* current topic stays A and a switch suggestion is returned without the model
\* being invoked; when the next prompt is a confirmation, the session's
\* current topic becomes the suggested topic B.
C38_SuggestThenConfirm ==
    \A i \in 1..Len(chatLog) :
        LET turn == chatLog[i]
        IN  ( /\ turn.before # "uncategorized"
              /\ ClassifyPrompt(turn.prompt) # turn.before
              /\ ~IsConfirmation(turn.prompt) ) =>
                /\ turn.reply = "suggestion"
                /\ ~turn.modelCalled
                /\ turn.after = turn.before
                /\ ( i < Len(chatLog) /\ IsConfirmation(chatLog[i + 1].prompt) ) =>
                       chatLog[i + 1].after = ClassifyPrompt(turn.prompt)

----------------------------------------------------------------------------
(* Properties of the timed cache *)

\* C39: a value stored with Set(key, value, d) is returned by Get only until
\* the duration d has elapsed since the Set; a Get after that reports a miss
\* and removes the entry.  (The expiry the Set records is its time plus d; a
\* Get at that very instant is left open.)
C39_ExpiresAfterDuration ==
    [][ result'.op = "TimedCache.Get" =>
          LET key == result'.arg.key
          IN  key \in DOMAIN tcData =>
                /\ now < tcExpiry[key] =>
                      result'.arg.found /\ result'.arg.value = tcData[key]
                /\ now > tcExpiry[key] =>
                      ~result'.arg.found /\ key \notin DOMAIN tcData' ]_vars

====
